---- MODULE Spec2Model ----
(***************************************************************************)
(* The four request handlers of blog/views.py (post_detail, PostListView,  *)
(* post_share, post_comment) over a store of posts and comments, a form    *)
(* validation facility and a mail-send collaborator.  Each handler runs to *)
(* completion on one request; `request', `response' and `mail_calls'       *)
(* record the request handled last, what it answered and the send_mail     *)
(* calls it made.                                                          *)
(***************************************************************************)
EXTENDS Integers, Sequences, FiniteSets, TLC

\* ------------------------------------------------------------------ bounds
NPosts == 4        \* rows in the Post table
MaxSeed == 1       \* comments already stored before the first request
MaxComments == 2   \* cap on the rows of the Comment table

VARIABLES
    posts,       \* Post table: id -> row (read-only for these handlers)
    comments,    \* Comment table, in stored (insertion) order
    seeded,      \* history: rows of the Comment table at start
    accepted,    \* history: post_comment POSTs on a published post with a valid form
    before,      \* history: the Comment table as the last request found it
    request,     \* the request handled last
    response,    \* its outcome and rendered context
    mail_calls   \* the send_mail calls made while handling it

vars == <<posts, comments, seeded, accepted, before, request, response, mail_calls>>

\* ------------------------------------------------------------- the stores
PUBLISHED == "published"
DRAFT == "draft"

Years == {2024, 2025}
Months == {1, 2}
Days == {1, 2}
Slugs == {"a", "b"}

\* Stored rows: posts 1 and 2 share slug and publish date (unique_for_date is
\* not a database constraint), post 3 differs in slug only, later posts in
\* the date as well.
SlugOf(i) == IF i <= 2 THEN "a" ELSE IF i % 2 = 1 THEN "b" ELSE "a"
PublishOf(i) ==
    IF i <= 3 THEN [year |-> 2024, month |-> 1, day |-> 1]
              ELSE [year |-> 2025, month |-> 2, day |-> 2]

PostIds == 1..NPosts
AbsentId == NPosts + 1

PostRow(i, st) == [id |-> i, slug |-> SlugOf(i), publish |-> PublishOf(i), status |-> st]

PostTables ==
    { [i \in PostIds |-> PostRow(i, st[i])] : st \in [PostIds -> {PUBLISHED, DRAFT}] }

CommentRow(i, p, n, e, b, a) ==
    [id |-> i, post |-> p, name |-> n, email |-> e, body |-> b, active |-> a]

\* Comments stored before the first request: on posts 1 and 3, some of them
\* deactivated by moderation.
SeedPosts == {1, 3}
SeedRows(i) == { CommentRow(i, p, "Eve", "eve@z.net", "First", a) : p \in SeedPosts, a \in BOOLEAN }

SeedTables ==
    UNION { { s \in [1..n -> UNION { SeedRows(i) : i \in 1..n }] : \A i \in 1..n : s[i].id = i }
            : n \in 0..MaxSeed }

\* ---------------------------------------------------- framework behaviour
\* get_object_or_404(Model, **filter): the single matching row, Http404 when
\* none matches, MultipleObjectsReturned (an unhandled fault) when several do.
Lookup(matching) ==
    IF matching = {} THEN [outcome |-> "NotFound", id |-> 0]
    ELSE IF Cardinality(matching) = 1
         THEN [outcome |-> "ok", id |-> CHOOSE i \in matching : TRUE]
         ELSE [outcome |-> "Fault", id |-> 0]

\* ------------------------------------------------------ requests/responses
NoData == [name |-> "", email |-> "", to |-> "", comments |-> "", body |-> ""]
UnboundForm == [bound |-> FALSE, data |-> NoData, errors |-> {}]

NoRequest ==
    [handler |-> "none", method |-> "GET", post_id |-> 0, year |-> 0, month |-> 0,
     day |-> 0, slug |-> "", page |-> "", data |-> NoData]

\* A response that rendered nothing: every context slot is absent (<<>>).
NoResponse ==
    [outcome |-> "none", template |-> "", post |-> <<>>, comments |-> <<>>,
     posts |-> <<>>, form |-> <<>>, sent |-> <<>>, comment |-> <<>>,
     page_number |-> 0, num_pages |-> 0]

Failed(outcome) == [NoResponse EXCEPT !.outcome = outcome]

Init ==
    /\ posts \in PostTables
    /\ comments \in SeedTables
    /\ seeded = Len(comments)
    /\ accepted = 0
    /\ before = comments
    /\ request = NoRequest
    /\ response = NoResponse
    /\ mail_calls = <<>>

\* No request is being handled: a worker handles one request at a time.
Idle == request.handler = "none"

\* The handler has returned: the response goes out and everything scoped to
\* the request is dropped; no state but the stores outlives a request.
finish_request ==
    /\ ~Idle
    /\ request' = NoRequest
    /\ response' = NoResponse
    /\ mail_calls' = <<>>
    /\ before' = comments
    /\ UNCHANGED <<posts, comments, seeded, accepted>>

\* ------------------------------------------------------------ post_detail
\* DetailMatch without the status filter.
DetailMatchAnyStatus(year, month, day, slug) ==
    { i \in PostIds :
        /\ posts[i].slug = slug
        /\ posts[i].publish.year = year
        /\ posts[i].publish.month = month
        /\ posts[i].publish.day = day }

DetailMatch(year, month, day, slug) ==
    { i \in PostIds :
        /\ posts[i].status = PUBLISHED
        /\ posts[i].slug = slug
        /\ posts[i].publish.year = year
        /\ posts[i].publish.month = month
        /\ posts[i].publish.day = day }

\* ActiveComments without the active filter: post.comments.all().
AllCommentsOf(post_id) ==
    LET Keep(c) == c.post = post_id IN SelectSeq(comments, Keep)

\* post.comments.filter(active=True)
ActiveComments(post_id) ==
    LET Keep(c) == c.post = post_id /\ c.active IN SelectSeq(comments, Keep)

post_detail(year, month, day, slug) ==
    LET found == Lookup(DetailMatch(year, month, day, slug)) IN
    /\ Idle
    /\ request' = [NoRequest EXCEPT !.handler = "post_detail", !.year = year,
                     !.month = month, !.day = day, !.slug = slug]
    /\ response' =
         IF found.outcome # "ok" THEN Failed(found.outcome)
         ELSE [NoResponse EXCEPT
                 !.outcome = "ok",
                 !.template = "blog/post/detail.html",
                 !.post = <<posts[found.id]>>,
                 !.comments = <<ActiveComments(found.id)>>,
                 !.form = <<UnboundForm>>]
    /\ before' = comments
    /\ mail_calls' = <<>>
    /\ UNCHANGED <<posts, comments, seeded, accepted>>

\* ----------------------------------------------------------- PostListView
paginate_by == 3

\* Post.published.all(): the published rows in the store's default order,
\* which the Post table's row order stands for.
PublishedPosts ==
    LET Keep(p) == p.status = PUBLISHED
    IN SelectSeq([i \in PostIds |-> posts[i]], Keep)

\* The page arguments a request may carry: none (""), decimal numbers, the
\* word "last", and a text that is no number.
MaxPageArg == (NPosts \div paginate_by) + 2
PageArgs == {"", "last", "x"} \cup { ToString(n) : n \in 0..MaxPageArg }

\* int(page): the number a decimal text denotes, ValueError for other texts.
ParseInt(text) ==
    IF \E n \in 0..MaxPageArg : ToString(n) = text
    THEN [ok |-> TRUE, value |-> CHOOSE n \in 0..MaxPageArg : ToString(n) = text]
    ELSE [ok |-> FALSE, value |-> 0]

\* Paginator.num_pages with orphans=0, allow_empty_first_page=True:
\* ceil(max(1, count) / per_page).
NumPages(count, per_page) ==
    LET hits == IF count < 1 THEN 1 ELSE count
    IN (hits + per_page - 1) \div per_page

\* PageOf without the upper range test: a page beyond the last is empty.
PageOfUnchecked(object_list, number, per_page) ==
    LET count == Len(object_list)
        bottom == (number - 1) * per_page
        top == IF bottom + per_page >= count THEN count ELSE bottom + per_page
    IN IF number < 1
       THEN [ok |-> FALSE, object_list |-> <<>>]
       ELSE [ok |-> TRUE, object_list |-> SubSeq(object_list, bottom + 1, top)]

\* Paginator.page(number): EmptyPage below 1 or above num_pages, else the
\* slice object_list[(number - 1) * per_page : min(number * per_page, count)].
PageOf(object_list, number, per_page) ==
    LET count == Len(object_list)
        bottom == (number - 1) * per_page
        top == IF bottom + per_page >= count THEN count ELSE bottom + per_page
    IN IF number < 1 \/ number > NumPages(count, per_page)
       THEN [ok |-> FALSE, object_list |-> <<>>]
       ELSE [ok |-> TRUE, object_list |-> SubSeq(object_list, bottom + 1, top)]

\* MultipleObjectMixin.paginate_queryset: page = GET.get('page') or 1;
\* int(page), "last" meaning num_pages, any other text Http404; an invalid
\* page number Http404.
PostListView(page) ==
    LET queryset == PublishedPosts
        num_pages == NumPages(Len(queryset), paginate_by)
        parsed == IF page = "" THEN [ok |-> TRUE, value |-> 1]
                  ELSE IF ParseInt(page).ok THEN ParseInt(page)
                  ELSE IF page = "last" THEN [ok |-> TRUE, value |-> num_pages]
                  ELSE [ok |-> FALSE, value |-> 0]
        got == PageOf(queryset, parsed.value, paginate_by)
    IN
    /\ Idle
    /\ request' = [NoRequest EXCEPT !.handler = "PostListView", !.page = page]
    /\ response' =
         IF ~parsed.ok \/ ~got.ok THEN Failed("NotFound")
         ELSE [NoResponse EXCEPT
                 !.outcome = "ok",
                 !.template = "blog/post/list.html",
                 !.posts = <<got.object_list>>,
                 !.page_number = parsed.value,
                 !.num_pages = num_pages]
    /\ before' = comments
    /\ mail_calls' = <<>>
    /\ UNCHANGED <<posts, comments, seeded, accepted>>

\* ------------------------------------------------------------------ forms
\* Submitted field texts.
NameTexts == {"Ana", ""}
EmailTexts == {" ana@x.com ", "not-an-email"}
ToTexts == {" bob@y.org ", "not-an-email"}
CommentsTexts == {"", "hi"}
BodyTexts == {"Nice post!", ""}

\* str.strip(), as the form fields apply it before validating.
Strip(text) ==
    CASE text = " ana@x.com " -> "ana@x.com"
      [] text = " bob@y.org " -> "bob@y.org"
      [] OTHER -> text

\* EmailValidator on a stripped text.
IsEmail(text) == text \in {"ana@x.com", "bob@y.org", "eve@z.net"}

RequiredError(text) == Strip(text) = ""
EmailError(text) == RequiredError(text) \/ ~IsEmail(Strip(text))

\* EmailPostForm: name, email and to are required, comments is optional.
EmailPostFormErrors(data) ==
    { f \in {"name"} : RequiredError(data.name) }
    \cup { f \in {"email"} : EmailError(data.email) }
    \cup { f \in {"to"} : EmailError(data.to) }

\* CommentForm: name, email and body, all required.
CommentFormErrors(data) ==
    { f \in {"name"} : RequiredError(data.name) }
    \cup { f \in {"email"} : EmailError(data.email) }
    \cup { f \in {"body"} : RequiredError(data.body) }

BoundForm(data, errors) == [bound |-> TRUE, data |-> data, errors |-> errors]

\* form.cleaned_data of a valid form.
CleanedData(data) ==
    [name |-> Strip(data.name), email |-> Strip(data.email), to |-> Strip(data.to),
     comments |-> Strip(data.comments), body |-> Strip(data.body)]

\* The body fields a request carries; only a POST's reach request.POST.
ValidShare == [NoData EXCEPT !.name = "Ana", !.email = " ana@x.com ", !.to = " bob@y.org "]
ValidComment == [NoData EXCEPT !.name = "Ana", !.email = " ana@x.com ", !.body = "Nice post!"]

ShareBodies(method) ==
    IF method = "POST"
    THEN { [NoData EXCEPT !.name = n, !.email = e, !.to = t, !.comments = c] :
             n \in NameTexts, e \in EmailTexts, t \in ToTexts, c \in CommentsTexts }
    ELSE { NoData, ValidShare }

CommentBodies(method) ==
    IF method = "POST"
    THEN { [NoData EXCEPT !.name = n, !.email = e, !.body = b] :
             n \in NameTexts, e \in EmailTexts, b \in BodyTexts }
    ELSE { NoData, ValidComment }

Methods == {"GET", "POST", "PUT"}

\* IdMatch without the status filter.
IdMatchAnyStatus(post_id) == { i \in PostIds : posts[i].id = post_id }

\* get_object_or_404(Post, id=post_id, status=Post.Status.PUBLISHED)
IdMatch(post_id) ==
    { i \in PostIds : posts[i].id = post_id /\ posts[i].status = PUBLISHED }

\* ------------------------------------------------------------- post_share
\* ShareMail that also copies the sender in.
ShareMailCopiesSender(post, cd) ==
    [subject |-> <<cd.name, cd.email, post.id>>,
     message |-> <<post.id, post.slug, cd.name, cd.comments>>,
     from_email |-> "None",
     recipient_list |-> <<cd.to, cd.email>>]

\* The send_mail call of post_share.
ShareMail(post, cd) ==
    [subject |-> <<cd.name, cd.email, post.id>>,
     message |-> <<post.id, post.slug, cd.name, cd.comments>>,
     from_email |-> "None",
     recipient_list |-> <<cd.to>>]

\* ShareSends without the is_valid() test.
ShareSendsUnvalidated(method, errors) == method = "POST"

\* if request.method == 'POST': ... if form.is_valid(): the branch that sends.
ShareSends(method, errors) == method = "POST" /\ errors = {}

\* transport: whether send_mail returns ("ok") or raises ("error"); a raised
\* error is not caught and no response is rendered.
post_share(method, post_id, data) ==
    LET found == Lookup(IdMatch(post_id))
        errors == EmailPostFormErrors(data)
        sends == found.outcome = "ok" /\ ShareSends(method, errors)
    IN
    /\ Idle
    /\ request' = [NoRequest EXCEPT !.handler = "post_share", !.method = method,
                     !.post_id = post_id, !.data = data]
    /\ mail_calls' =
         IF sends THEN <<ShareMail(posts[found.id], CleanedData(data))>> ELSE <<>>
    /\ \E transport \in IF sends THEN {"ok", "error"} ELSE {"ok"} :
       response' =
         IF found.outcome # "ok" THEN Failed(found.outcome)
         ELSE IF sends /\ transport = "error" THEN Failed("Fault")
         ELSE [NoResponse EXCEPT
                 !.outcome = "ok",
                 !.template = "blog/post/share.html",
                 !.post = <<posts[found.id]>>,
                 !.form = IF method = "POST" THEN <<BoundForm(data, errors)>>
                          ELSE <<UnboundForm>>,
                 !.sent = <<sends>>]
    /\ before' = comments
    /\ UNCHANGED <<posts, comments, seeded, accepted>>

\* ----------------------------------------------------------- post_comment
\* form.save(commit=False); comment.post = post; comment.save(): the row the
\* store inserts, with the next id and the model's default active=True.
\* SavedComment without `comment.post = post': the row keeps a stale post.
SavedCommentStalePost(post, cd) ==
    CommentRow(Len(comments) + 1, 1 + (post.id % NPosts), cd.name, cd.email, cd.body, TRUE)

SavedComment(post, cd) ==
    CommentRow(Len(comments) + 1, post.id, cd.name, cd.email, cd.body, TRUE)

\* Insert as an UPDATE of the newest row when there is one.
InsertOverwrites(table, row) ==
    IF table = <<>> THEN <<row>> ELSE [table EXCEPT ![Len(table)] = row]

\* comment.save() of a new instance: an INSERT.
Insert(table, row) == Append(table, row)

\* CommentGate with the post looked up before the method is tested.
CommentGateLookupFirst(method, found) ==
    IF found.outcome # "ok" THEN found.outcome
    ELSE IF method # "POST" THEN "MethodNotAllowed" ELSE "ok"

\* @require_POST, then get_object_or_404: what the request fails with before
\* the form is bound, "ok" when it gets that far.
CommentGate(method, found) ==
    IF method # "POST" THEN "MethodNotAllowed" ELSE found.outcome

\* CommentSaves without the is_valid() test.
CommentSavesUnvalidated(errors) == TRUE

\* if form.is_valid(): the branch that saves.
CommentSaves(errors) == errors = {}

post_comment(method, post_id, data) ==
    LET found == Lookup(IdMatch(post_id))
        gate == CommentGate(method, found)
        errors == CommentFormErrors(data)
        saves == gate = "ok" /\ CommentSaves(errors)
        comment == SavedComment(posts[found.id], CleanedData(data))
    IN
    /\ Idle
    /\ Len(comments) < MaxComments
    /\ request' = [NoRequest EXCEPT !.handler = "post_comment", !.method = method,
                     !.post_id = post_id, !.data = data]
    /\ comments' = IF saves THEN Insert(comments, comment) ELSE comments
    /\ accepted' = IF gate = "ok" /\ errors = {} THEN accepted + 1 ELSE accepted
    /\ response' =
         IF gate # "ok" THEN Failed(gate)
         ELSE [NoResponse EXCEPT
                 !.outcome = "ok",
                 !.template = "blog/post/comment.html",
                 !.post = <<posts[found.id]>>,
                 !.form = <<BoundForm(data, errors)>>,
                 !.comment = IF saves THEN <<<<comment>>>> ELSE <<<<>>>>]
    /\ before' = comments
    /\ mail_calls' = <<>>
    /\ UNCHANGED <<posts, seeded>>

Next ==
    \/ \E y \in Years, m \in Months, d \in Days, s \in Slugs : post_detail(y, m, d, s)
    \/ \E page \in PageArgs : PostListView(page)
    \/ \E method \in Methods, post_id \in PostIds \cup {AbsentId} :
         \E data \in ShareBodies(method) : post_share(method, post_id, data)
    \/ \E method \in Methods, post_id \in PostIds \cup {AbsentId} :
         \E data \in CommentBodies(method) : post_comment(method, post_id, data)
    \/ finish_request

Spec == Init /\ [][Next]_vars

\* ================================================================= properties
Handled(handler) == request.handler = handler
Rendered == response.outcome = "ok"
IsPublishedId(post_id) == post_id \in PostIds /\ posts[post_id].status = PUBLISHED

ValidCommentRequest ==
    /\ Handled("post_comment") /\ request.method = "POST"
    /\ IsPublishedId(request.post_id)
    /\ CommentFormErrors(request.data) = {}

InvalidCommentRequest ==
    /\ Handled("post_comment") /\ request.method = "POST"
    /\ IsPublishedId(request.post_id)
    /\ CommentFormErrors(request.data) # {}

ValidShareRequest ==
    /\ Handled("post_share") /\ request.method = "POST"
    /\ IsPublishedId(request.post_id)
    /\ EmailPostFormErrors(request.data) = {}

C3_NonPostCommentNotAllowed ==
    (Handled("post_comment") /\ request.method # "POST") =>
        /\ response = Failed("MethodNotAllowed")
        /\ comments = before
        /\ mail_calls = <<>>

C3_Witness ==
    /\ Handled("post_comment") /\ request.method = "GET"
    /\ ~IsPublishedId(request.post_id)
    /\ CommentFormErrors(request.data) = {}
    /\ response.outcome = "MethodNotAllowed"
    /\ comments = before

\* C4 as stated: a post_share POST on a published post whose fields validate
\* calls send_mail exactly once, with recipient list [to], and the response
\* carries sent=true.
C4_ValidShareAlwaysSent ==
    ValidShareRequest =>
        /\ Len(mail_calls) = 1
        /\ mail_calls[1].recipient_list = <<Strip(request.data.to)>>
        /\ response.outcome = "ok"
        /\ response.sent = <<TRUE>>

\* C4, amended: a post_share POST on a published post whose fields validate
\* calls send_mail exactly once, with recipient list [to]; when that call
\* returns, the response carries sent=true, and when it raises, the error
\* propagates and nothing is rendered.  sent=true appears only in a response
\* rendered after the one call returned.
C4_ValidShareSendsOnce ==
    /\ ValidShareRequest =>
         /\ Len(mail_calls) = 1
         /\ mail_calls[1].recipient_list = <<Strip(request.data.to)>>
         /\ response.outcome \in {"ok", "Fault"}
         /\ response.outcome = "ok" => response.sent = <<TRUE>>
         /\ response.outcome = "Fault" => response = Failed("Fault")
    /\ response.sent = <<TRUE>> =>
         /\ ValidShareRequest
         /\ Len(mail_calls) = 1
         /\ response.outcome = "ok"

C4_Witness ==
    /\ ValidShareRequest
    /\ request.data.to = " bob@y.org "
    /\ Len(mail_calls) = 1
    /\ mail_calls[1].recipient_list = <<"bob@y.org">>
    /\ response.sent = <<TRUE>>

\* C5: post_share makes no send_mail call and answers sent=false whenever the
\* request is not a POST with a valid form: an invalid POST gets the bound
\* form with its errors back, any other method an unbound form; and in every
\* post_share response sent=true exactly when send_mail was called.
C5_NoSendUnlessValidPost ==
    Handled("post_share") =>
        LET errors == EmailPostFormErrors(request.data) IN
        /\ ~(request.method = "POST" /\ errors = {}) =>
             /\ mail_calls = <<>>
             /\ Rendered => response.sent = <<FALSE>>
        /\ (IsPublishedId(request.post_id) /\ request.method = "POST" /\ errors # {}) =>
             /\ Rendered
             /\ response.form = <<BoundForm(request.data, errors)>>
             /\ response.sent = <<FALSE>>
        /\ (IsPublishedId(request.post_id) /\ request.method # "POST") =>
             /\ Rendered
             /\ response.form = <<UnboundForm>>
             /\ response.sent = <<FALSE>>
        /\ Rendered =>
             /\ response.sent \in {<<TRUE>>, <<FALSE>>}
             /\ response.sent = <<TRUE>> <=> mail_calls # <<>>

C5_Witness ==
    /\ Handled("post_share") /\ request.method = "POST"
    /\ request.data.to = "not-an-email"
    /\ EmailPostFormErrors(request.data) = {"to"}
    /\ Rendered
    /\ response.form[1].errors = {"to"}
    /\ response.sent = <<FALSE>>
    /\ mail_calls = <<>>

PublishedMatches ==
    { i \in PostIds :
        /\ posts[i].status = PUBLISHED
        /\ posts[i].slug = request.slug
        /\ posts[i].publish = [year |-> request.year, month |-> request.month,
                               day |-> request.day] }

\* C6: post_detail returns a post only if it is published and its slug and
\* publish year, month and day equal the request's; a request matching no
\* published post (a draft match included) fails with NotFound and renders
\* nothing.
C6_DetailOnlyPublishedMatch ==
    Handled("post_detail") =>
        /\ Rendered =>
             /\ Len(response.post) = 1
             /\ \E i \in PostIds : response.post[1] = posts[i]
             /\ response.post[1].status = PUBLISHED
             /\ response.post[1].slug = request.slug
             /\ response.post[1].publish.year = request.year
             /\ response.post[1].publish.month = request.month
             /\ response.post[1].publish.day = request.day
        /\ PublishedMatches = {} => response = Failed("NotFound")

C6_Witness ==
    /\ Handled("post_detail")
    /\ PublishedMatches = {}
    /\ \E i \in PostIds :
         /\ posts[i].status = DRAFT
         /\ posts[i].slug = request.slug
         /\ posts[i].publish = [year |-> request.year, month |-> request.month,
                                day |-> request.day]
    /\ response = Failed("NotFound")

\* C7: the comments in a post_detail response are exactly the stored comments
\* of the returned post that are active, each once and in stored order: no
\* inactive comment and no comment of another post appears.
C7_DetailShowsActiveComments ==
    (Handled("post_detail") /\ Rendered) =>
        LET shown == response.comments[1]
            wanted == { i \in 1..Len(comments) :
                          comments[i].post = response.post[1].id /\ comments[i].active }
        IN /\ \A k \in 1..Len(shown) : \E i \in wanted : shown[k] = comments[i]
           /\ \A i \in wanted : \E k \in 1..Len(shown) : shown[k] = comments[i]
           /\ Len(shown) = Cardinality(wanted)
           /\ \A k \in 1..Len(shown) : \A l \in 1..Len(shown) :
                k < l => shown[k].id < shown[l].id

C7_Witness ==
    /\ Handled("post_detail") /\ Rendered
    /\ accepted >= 1
    /\ Len(response.comments[1]) = 1
    /\ \E i \in 1..Len(comments) :
         comments[i].post = response.post[1].id /\ ~comments[i].active

\* C8: PostListView lists only published posts, in the store's default order,
\* 3 to a page: every page but the last holds exactly 3, the last at most 3,
\* and a page number beyond the last fails with NotFound.
C8_ListPagesOfThree ==
    Handled("PostListView") =>
        LET count == Cardinality({ i \in PostIds : posts[i].status = PUBLISHED })
            last == IF count = 0 THEN 1 ELSE (count + 2) \div 3
            asked == ParseInt(request.page)
        IN /\ Rendered =>
                LET n == response.page_number
                    shown == response.posts[1]
                    top == IF 3 * n <= count THEN 3 * n ELSE count
                IN /\ n \in 1..last
                   /\ asked.ok => n = asked.value
                   /\ \A k \in 1..Len(shown) : shown[k].status = PUBLISHED
                   /\ shown = SubSeq(PublishedPosts, 3 * (n - 1) + 1, top)
                   /\ n < last => Len(shown) = 3
                   /\ n = last => Len(shown) <= 3 /\ (count > 0 => Len(shown) >= 1)
           /\ (asked.ok /\ asked.value > last) => response = Failed("NotFound")

C8_Witness ==
    /\ Handled("PostListView") /\ Rendered
    /\ request.page = "2"
    /\ response.num_pages = 2
    /\ Len(response.posts[1]) = 1

\* C9: post_share, and post_comment under POST, fail with NotFound when
\* post_id names no published post (an absent id or a draft), before any form
\* is bound: no mail is sent and no Comment persisted, valid fields or not.
C9_UnpublishedIdNotFound ==
    ( /\ Handled("post_share") \/ (Handled("post_comment") /\ request.method = "POST")
      /\ ~IsPublishedId(request.post_id) ) =>
        /\ response = Failed("NotFound")
        /\ mail_calls = <<>>
        /\ comments = before

C9_Witness ==
    /\ Handled("post_share") /\ request.method = "POST"
    /\ request.post_id \in PostIds
    /\ posts[request.post_id].status = DRAFT
    /\ EmailPostFormErrors(request.data) = {}
    /\ response.outcome = "NotFound"
    /\ mail_calls = <<>>

\* C10: no step changes a stored post or an existing Comment; the only store
\* change is post_comment's insertion of one new Comment in its valid
\* outcome, so the stored comments only grow.
C10_StoresOnlyGrow ==
    [][ /\ posts' = posts
        /\ Len(comments') >= Len(comments)
        /\ SubSeq(comments', 1, Len(comments)) = comments
        /\ comments' # comments =>
             /\ Len(comments') = Len(comments) + 1
             /\ request'.handler = "post_comment"
             /\ response'.outcome = "ok"
             /\ response'.comment = << <<comments'[Len(comments')]>> >> ]_vars

C10_Witness ==
    /\ Handled("post_share") /\ mail_calls # <<>>
    /\ seeded >= 1 /\ accepted >= 1
    /\ comments = before
====
